---- MODULE Spec2Model ----
(***************************************************************************)
(* Listing lifecycle of the B2B marketplace: the advertisements serverless *)
(* function (netlify/functions/advertisements.ts), the status endpoint the *)
(* moderation page calls, and the moderation page's status actions and     *)
(* inquiry filters (client/src/pages/dashboard.tsx, component Admin).      *)
(***************************************************************************)
EXTENDS Integers, Sequences, FiniteSets, TLC

\* ------------------------------------------------------------------ bounds

\* Rows the store holds in total, over both listing tables.
MaxRows == 2

\* The same, in the runs that follow the moderation page as well.
MaxViewRows == 1

\* Inquiries in a fetched list.
MaxInquiries == 2

\* Characters typed into the search box.
MaxTermLen == 2

\* ------------------------------------------------------------ the data model

Kinds == {"advertisement", "business"}

\* The collections the moderation page mutates, one mutation each.
PageKinds == Kinds \cup {"franchise", "inquiry"}

Statuses == {"pending", "active", "inactive"}

\* A stored listing, reduced to its lifecycle fields.
Rows == [status : Statuses, isActive : BOOLEAN]

\* "No row": what a lookup of an identifier that resolves to nothing yields.
NoRow == [status |-> "none", isActive |-> FALSE]

\* Column defaults of a listing table (shared/schema is not part of the
\* sources; the specification's lifecycle section fixes them).
DefaultStatus == "pending"

DefaultIsActive == FALSE

\* The ids a POST body can name: none (the empty tuple) or one id.
BodyIds == {<< >>} \cup {<<i>> : i \in 1 .. MaxRows}

\* JSON text of a POST body, reduced to the id and the two lifecycle keys;
\* "absent" is a key the body does not carry.
PostBodies ==
  [id : BodyIds, status : Statuses \cup {"absent"}, isActive : {"true", "false", "absent"}]

\* Body of a status PATCH: JSON.stringify({ status, isActive }).
PatchBodies == [status : Statuses, isActive : BOOLEAN]

Methods == {"OPTIONS", "GET", "POST", "PUT", "DELETE"}

VARIABLES
  store,         \* store[k]: the rows of table k, each under its id
  serial,        \* serial[k]: the next value of the id sequence of table k
  resp,          \* the last request served and its response
  view,          \* view[k]: the list of kind k the moderation page last fetched
  mutation,      \* mutation[k]: the moderation page's status mutation of kind k
  moderators,    \* moderators[m]: the status mutation of moderator m's page, when two
                 \* moderators work at the same time
  inquiries,     \* the inquiries the moderation page fetched
  searchTerm,    \* the page's search box
  statusFilter,  \* the page's status select
  typeFilter,    \* the page's type select
  refetching,    \* the collections whose refetch the page has asked for
  franchises,    \* the franchise rows, each under its id
  inquiryStore,  \* the stored inquiries, each under its id
  dashboard      \* the user dashboard: what useAuth returns and its three queries

vars == <<store, serial, resp, view, mutation, moderators, inquiries, searchTerm, statusFilter,
          typeFilter, refetching, franchises, inquiryStore, dashboard>>

page == <<view, mutation, refetching>>

inquiryTab == <<inquiries, searchTerm, statusFilter, typeFilter>>

clients == <<page, moderators, inquiryTab, dashboard>>

\* The tables the advertisements function and the listing endpoints leave alone.
desk == <<franchises, inquiryStore>>

\* ------------------------------------------------------------------ helpers

TotalRows == Cardinality(DOMAIN store["advertisement"]) + Cardinality(DOMAIN store["business"])

Exists(k, id) == id \in DOMAIN store[k]

Lookup(k, id) == IF Exists(k, id) THEN store[k][id] ELSE NoRow

\* A row as a read returns it: with its identifier.
Resource(id, row) == [id |-> id, status |-> row.status, isActive |-> row.isActive]

NoResource == Resource(0, NoRow)

\* db.select().from(advertisements).where(eq(advertisements.isActive, true))
SelectActive(k) ==
  {Resource(id, store[k][id]) : id \in {i \in DOMAIN store[k] : store[k][i].isActive = TRUE}}

\* db.insert(advertisements).values(data): the body's keys are the row's
\* columns as they stand; a column the body does not carry takes its default.
InsertValues(data) ==
  [status   |-> IF data.status = "absent" THEN DefaultStatus ELSE data.status,
   isActive |-> IF data.isActive = "absent" THEN DefaultIsActive ELSE data.isActive = "true"]

\* update(id, patch) of the status endpoint: both fields are written as given.
UpdateRow(row, patch) == [row EXCEPT !.status = patch.status, !.isActive = patch.isActive]

\* Variants of the buttons' bodies with one flag of one button wrong.
ButtonBody_ActivateKeepsFlag(button) ==
  CASE button = "activate"   -> [status |-> "active",   isActive |-> FALSE]
    [] button = "deactivate" -> [status |-> "inactive", isActive |-> FALSE]
    [] button = "setPending" -> [status |-> "pending",  isActive |-> FALSE]

ButtonBody_DeactivateKeepsFlag(button) ==
  CASE button = "activate"   -> [status |-> "active",   isActive |-> TRUE]
    [] button = "deactivate" -> [status |-> "inactive", isActive |-> TRUE]
    [] button = "setPending" -> [status |-> "pending",  isActive |-> FALSE]

ButtonBody_PendingKeepsFlag(button) ==
  CASE button = "activate"   -> [status |-> "active",   isActive |-> TRUE]
    [] button = "deactivate" -> [status |-> "inactive", isActive |-> FALSE]
    [] button = "setPending" -> [status |-> "pending",  isActive |-> TRUE]

\* Variant with the flag of every button inverted.
ButtonBody_FlagInverted(button) ==
  CASE button = "activate"   -> [status |-> "active",   isActive |-> FALSE]
    [] button = "deactivate" -> [status |-> "inactive", isActive |-> TRUE]
    [] button = "setPending" -> [status |-> "pending",  isActive |-> TRUE]

\* Variant with Deactivate sending the status of Activate.
ButtonBody_DeactivateAsActive(button) ==
  CASE button = "activate"   -> [status |-> "active",   isActive |-> TRUE]
    [] button = "deactivate" -> [status |-> "active",   isActive |-> FALSE]
    [] button = "setPending" -> [status |-> "pending",  isActive |-> FALSE]

\* What the moderation page sends for each of its three status buttons.
ButtonBody(button) ==
  CASE button = "activate"   -> [status |-> "active",   isActive |-> TRUE]
    [] button = "deactivate" -> [status |-> "inactive", isActive |-> FALSE]
    [] button = "setPending" -> [status |-> "pending",  isActive |-> FALSE]

ButtonNames == {"activate", "deactivate", "setPending"}

\* Variants of the ok test: the negation dropped, and 4xx taken as ok.
ResponseOk_Negated(code) == ~(code >= 200 /\ code <= 299)

ResponseOk_Below500(code) == code >= 200 /\ code <= 499

\* response.ok of fetch: a 2xx status.
ResponseOk(code) == code >= 200 /\ code <= 299

\* Variant of the mutation function without the throw: every response is a
\* success.
MutationOutcome_AlwaysSuccess(code) == "success"

\* mutationFn throws on a response that is not ok: onError runs, else onSuccess.
MutationOutcome(code) == IF ResponseOk(code) THEN "success" ELSE "error"

\* A response and the request it answers.  body names what the response
\* carries: "none", the "array" in list, the "object" in row, or the "error"
\* object { error: <error> }.
Response(op, k, id, req, code, error, before, row, list, body) ==
  [op |-> op, kind |-> k, id |-> id, req |-> req, statusCode |-> code,
   error |-> error, before |-> before, row |-> row, list |-> list, body |-> body]

\* The three queries of the user dashboard.
UserQueries == {"/api/user/businesses", "/api/user/advertisements", "/api/user/franchises"}

\* ------------------------------------------------------------------ Init

\* The state of a mutation nobody has called, or that has settled: onSuccess
\* or onError has run and shown its toast.
Settled(status) == [status |-> status, id |-> 0, button |-> "none"]

\* Two moderators, each with the page open.
Moderators == {"m1", "m2"}

\* A moderator's mutation before its first call.  overlap: the mutation was in
\* flight together with the other moderator's, on the same listing; last: of
\* the two moderators, this one's request was the last the store applied.
ModeratorIdle ==
  [status |-> "idle", kind |-> "advertisement", id |-> 0, button |-> "none",
   overlap |-> FALSE, last |-> FALSE]

Init ==
  /\ store = [k \in Kinds |-> << >>]
  /\ serial = [k \in Kinds |-> 1]
  /\ resp = Response("NONE", "advertisement", 0, NoRow, 0, "", NoRow, NoResource, {}, "none")
  /\ view = [k \in Kinds \cup {"franchise"} |-> << >>]
  /\ mutation = [k \in PageKinds |-> Settled("idle")]
  /\ refetching = {}
  /\ franchises = << >>
  /\ inquiryStore = << >>
  /\ moderators = [m \in Moderators |-> ModeratorIdle]
  /\ inquiries = << >>
  /\ searchTerm = << >>
  /\ statusFilter = "all"
  /\ typeFilter = "all"
  /\ dashboard = [isLoading |-> TRUE, isAuthenticated |-> FALSE,
                  fetching |-> [q \in UserQueries |-> FALSE],
                  data |-> [q \in UserQueries |-> FALSE]]

\* ------------------------------------------- advertisements.ts: the handler

\* OPTIONS: 200 with the headers alone.
HandlerOptions ==
  /\ UNCHANGED <<clients, desk>>
  /\ resp' = Response("OPTIONS", "advertisement", 0, NoRow, 200, "", NoRow, NoResource, {},
                      "none")
  /\ UNCHANGED <<store, serial>>

\* Variant that answers 404 when no row is active.
HandlerGet_NotFoundOnEmpty ==
  /\ UNCHANGED <<clients, desk>>
  /\ \E dbOk \in BOOLEAN :
       resp' = IF dbOk /\ SelectActive("advertisement") # {}
               THEN Response("GET", "advertisement", 0, NoRow, 200, "", NoRow, NoResource,
                             SelectActive("advertisement"), "array")
               ELSE IF dbOk
               THEN Response("GET", "advertisement", 0, NoRow, 404, "Not found",
                             NoRow, NoResource, {}, "error")
               ELSE Response("GET", "advertisement", 0, NoRow, 500, "Internal server error",
                             NoRow, NoResource, {}, "error")
  /\ UNCHANGED <<store, serial>>

\* GET: the active rows, or 500 when the query throws.
HandlerGet ==
  /\ UNCHANGED <<clients, desk>>
  /\ \E dbOk \in BOOLEAN :
       resp' = IF dbOk
               THEN Response("GET", "advertisement", 0, NoRow, 200, "", NoRow, NoResource,
                             SelectActive("advertisement"), "array")
               ELSE Response("GET", "advertisement", 0, NoRow, 500, "Internal server error",
                             NoRow, NoResource, {}, "error")
  /\ UNCHANGED <<store, serial>>

\* Variant that answers with the returning() array instead of its first row.
Post_ReturnsArray(data) ==
  LET id  == IF data.id = << >> THEN serial["advertisement"] ELSE data.id[1]
      row == InsertValues(data)
  IN /\ TotalRows < MaxRows
     /\ id <= MaxRows
     /\ UNCHANGED <<clients, desk>>
     /\ serial' = IF data.id = << >> THEN [serial EXCEPT !["advertisement"] = @ + 1]
                  ELSE serial
     /\ IF id \in DOMAIN store["advertisement"]
        THEN /\ resp' = Response("POST", "advertisement", 0, NoRow, 500,
                                 "Internal server error", NoRow, NoResource, {}, "error")
             /\ UNCHANGED store
        ELSE /\ store' = [store EXCEPT !["advertisement"] = @ @@ (id :> row)]
             /\ resp' = Response("POST", "advertisement", id, NoRow, 201, "", NoRow,
                                 NoResource, {Resource(id, row)}, "array")

\* Variant whose insert replaces the row of an id in use.
Post_Upserts(data) ==
  LET id  == IF data.id = << >> THEN serial["advertisement"] ELSE data.id[1]
      row == InsertValues(data)
  IN /\ TotalRows < MaxRows
     /\ id <= MaxRows
     /\ UNCHANGED <<clients, desk>>
     /\ serial' = IF data.id = << >> THEN [serial EXCEPT !["advertisement"] = @ + 1]
                  ELSE serial
     /\ store' = [store EXCEPT !["advertisement"] =
                    [i \in DOMAIN @ \cup {id} |-> IF i = id THEN row ELSE @[i]]]
     /\ resp' = Response("POST", "advertisement", id, NoRow, 201, "", NoRow,
                         Resource(id, row), {}, "object")

\* POST of the parsed body data: the body is inserted as it is, under the id
\* it carries or else under the next value of the sequence; 201 with the
\* inserted row.  An id already in use violates the primary key: the insert
\* throws and the catch block answers 500.
Post(data) ==
  LET id  == IF data.id = << >> THEN serial["advertisement"] ELSE data.id[1]
      row == InsertValues(data)
  IN /\ TotalRows < MaxRows
     /\ id <= MaxRows
     /\ UNCHANGED <<clients, desk>>
     /\ serial' = IF data.id = << >> THEN [serial EXCEPT !["advertisement"] = @ + 1]
                  ELSE serial
     /\ IF id \in DOMAIN store["advertisement"]
        THEN /\ resp' = Response("POST", "advertisement", 0, NoRow, 500,
                                 "Internal server error", NoRow, NoResource, {}, "error")
             /\ UNCHANGED store
        ELSE /\ store' = [store EXCEPT !["advertisement"] = @ @@ (id :> row)]
             /\ resp' = Response("POST", "advertisement", id, NoRow, 201, "", NoRow,
                                 Resource(id, row), {}, "object")

\* POST of a body that names no id.
HandlerPost == \E data \in PostBodies : data.id = << >> /\ Post(data)

\* POST of a body that names an id.
HandlerPostWithId == \E data \in PostBodies : data.id # << >> /\ Post(data)

\* Variant whose insert goes through before the failure is answered.
HandlerPostFails_RowInserted ==
  /\ TotalRows < MaxRows
  /\ serial["advertisement"] \notin DOMAIN store["advertisement"]
  /\ UNCHANGED <<clients, desk>>
  /\ store' = [store EXCEPT !["advertisement"] =
                 @ @@ (serial["advertisement"] :>
                         [status |-> DefaultStatus, isActive |-> DefaultIsActive])]
  /\ serial' = [serial EXCEPT !["advertisement"] = @ + 1]
  /\ resp' = Response("POST", "advertisement", 0, NoRow, 500, "Internal server error",
                      NoRow, NoResource, {}, "error")

\* Variant that answers a body that is not JSON with 400.
HandlerPostFails_BadRequest ==
  /\ UNCHANGED <<clients, desk>>
  /\ resp' = Response("POST", "advertisement", 0, NoRow, 400, "Invalid JSON",
                      NoRow, NoResource, {}, "error")
  /\ UNCHANGED <<store, serial>>

\* POST whose body is not JSON, or whose insert the store rejects: the catch
\* block answers 500 and nothing is inserted.
HandlerPostFails ==
  /\ UNCHANGED <<clients, desk>>
  /\ resp' = Response("POST", "advertisement", 0, NoRow, 500, "Internal server error",
                      NoRow, NoResource, {}, "error")
  /\ UNCHANGED <<store, serial>>

\* Variant with a DELETE branch that removes an advertisement.
HandlerOther_Deletes ==
  /\ UNCHANGED <<clients, desk>>
  /\ \E m \in Methods \ {"OPTIONS", "GET", "POST"} :
       IF m = "DELETE" /\ DOMAIN store["advertisement"] # {}
       THEN \E id \in DOMAIN store["advertisement"] :
              /\ store' = [store EXCEPT !["advertisement"] =
                             [i \in DOMAIN store["advertisement"] \ {id} |->
                                store["advertisement"][i]]]
              /\ resp' = Response(m, "advertisement", id, NoRow, 200, "", NoRow,
                                  NoResource, {}, "none")
       ELSE /\ resp' = Response(m, "advertisement", 0, NoRow, 405, "Method not allowed",
                                NoRow, NoResource, {}, "error")
            /\ UNCHANGED store
  /\ UNCHANGED serial

\* Any other method: 405.
HandlerOther ==
  /\ UNCHANGED <<clients, desk>>
  /\ \E m \in Methods \ {"OPTIONS", "GET", "POST"} :
       resp' = Response(m, "advertisement", 0, NoRow, 405, "Method not allowed",
                        NoRow, NoResource, {}, "error")
  /\ UNCHANGED <<store, serial>>

\* ------------------------------------------------ the submission of a business

\* A business is submitted in the pending/inactive state.
CreateBusiness ==
  /\ TotalRows < MaxRows
  /\ UNCHANGED <<clients, desk>>
  /\ LET row == [status |-> DefaultStatus, isActive |-> DefaultIsActive]
         id  == serial["business"]
     IN /\ store' = [store EXCEPT !["business"] = @ @@ (id :> row)]
        /\ serial' = [serial EXCEPT !["business"] = @ + 1]
        /\ resp' = Response("POST", "business", id, NoRow, 201, "", NoRow,
                            Resource(id, row), {}, "object")

\* --------------------------------- PATCH /api/<kind>/{id}/status, the endpoint

\* The identifiers a request names: the rows of the table and the first
\* identifier that resolves to nothing.
RequestIds(k) ==
  DOMAIN store[k]
    \cup {CHOOSE i \in 1 .. (Cardinality(DOMAIN store[k]) + 1) : i \notin DOMAIN store[k]}

\* One status request: a row update when the identifier resolves and the
\* store answers, NotFound when it does not resolve, a store failure otherwise.
Patch(k, id, body) ==
  IF ~Exists(k, id)
  THEN /\ \E code \in {404, 500} :
            resp' = Response("PATCH", k, id, body, code, "NotFound", NoRow, NoResource, {},
                            "error")
       /\ UNCHANGED store
  ELSE \E dbOk \in BOOLEAN :
         IF dbOk
         THEN LET row == UpdateRow(store[k][id], body)
              IN /\ store' = [store EXCEPT ![k][id] = row]
                 /\ resp' = Response("PATCH", k, id, body, 200, "", store[k][id],
                                     Resource(id, row), {}, "object")
         ELSE /\ resp' = Response("PATCH", k, id, body, 500, "StoreFailure", store[k][id],
                                  NoResource, {}, "error")
              /\ UNCHANGED store

\* A status request with any {status, isActive} body, from any caller.
PatchStatus ==
  /\ UNCHANGED <<serial, clients, desk>>
  /\ \E k \in Kinds : \E id \in RequestIds(k) : \E body \in PatchBodies : Patch(k, id, body)

\* ------------------------------------------- dashboard.tsx: the moderation page

\* The full list of a kind, as the moderation read returns it.
AdminList(k) == store[k]

\* Variant of the buttons: all three on every listing.
Buttons_All(ad) == {"activate", "deactivate", "setPending"}

\* The status buttons rendered for a listing of the fetched list: Activate
\* when it is not active, Deactivate when it is, Set Pending always.
Buttons(ad) ==
  (IF ~ad.isActive THEN {"activate"} ELSE {})
    \cup (IF ad.isActive THEN {"deactivate"} ELSE {})
    \cup {"setPending"}

\* disabled={mutation.isPending}
IsPending(k) == mutation[k].status = "pending"

\* The query of kind k resolves (the first fetch, or a refetch).
FetchList(k) ==
  /\ view' = [view EXCEPT ![k] = AdminList(k)]
  /\ refetching' = refetching \ {k}
  /\ UNCHANGED <<store, serial, resp, mutation, moderators, inquiryTab, dashboard, desk>>

\* Variant whose buttons stay enabled while the mutation is pending.
Click_NotDisabled(k, id, button) ==
  /\ id \in DOMAIN view[k]
  /\ button \in Buttons(view[k][id])
  /\ mutation' = [mutation EXCEPT ![k] = [status |-> "pending", id |-> id, button |-> button]]
  /\ UNCHANGED <<store, serial, resp, view, refetching, moderators, inquiryTab, dashboard, desk>>

\* A click on a rendered, enabled status button: mutate() sends the PATCH.
Click(k, id, button) ==
  /\ id \in DOMAIN view[k]
  /\ button \in Buttons(view[k][id])
  /\ ~IsPending(k)
  /\ mutation' = [mutation EXCEPT ![k] = [status |-> "pending", id |-> id, button |-> button]]
  /\ UNCHANGED <<store, serial, resp, view, refetching, moderators, inquiryTab, dashboard, desk>>

\* The PATCH of the pending mutation is served and its response handled:
\* onSuccess when the response is ok, onError when it is not.
Settle(k) ==
  /\ IsPending(k)
  /\ Patch(k, mutation[k].id, ButtonBody(mutation[k].button))
  /\ mutation' = [mutation EXCEPT ![k] = Settled(MutationOutcome(resp'.statusCode))]
  /\ refetching' = IF MutationOutcome(resp'.statusCode) = "success"
                   THEN refetching \cup {k} ELSE refetching
  /\ UNCHANGED <<view, serial, moderators, inquiryTab, dashboard, desk>>

Fetch == \E k \in Kinds : FetchList(k)

ClickButton == \E k \in Kinds : \E id \in DOMAIN view[k] : \E b \in ButtonNames : Click(k, id, b)

SettleMutation == \E k \in Kinds : Settle(k)

\* ------------------------------- dashboard.tsx: two moderators at the same time

\* The other of the two moderators.
Rival(m) == CHOOSE n \in Moderators : n # m

\* Both mutations are in flight on the listing (k, id).
InFlightOn(m, k, id) ==
  /\ moderators[m].status = "pending"
  /\ moderators[m].kind = k
  /\ moderators[m].id = id

\* Moderator m clicks a status button of a listing.  The page of m shows the
\* listing as some earlier fetch returned it, with either value of isActive.
ModeratorClick(m, k, id, button) ==
  /\ moderators[m].status # "pending"
  /\ id \in DOMAIN store[k]
  /\ \E shown \in BOOLEAN : button \in Buttons([isActive |-> shown])
  /\ LET races == InFlightOn(Rival(m), k, id)
     IN moderators' =
          [n \in Moderators |->
             IF n = m
             THEN [status |-> "pending", kind |-> k, id |-> id, button |-> button,
                   overlap |-> races, last |-> FALSE]
             ELSE IF races THEN [moderators[n] EXCEPT !.overlap = TRUE]
             ELSE moderators[n]]
  /\ UNCHANGED <<store, serial, resp, page, inquiryTab, dashboard, desk>>

\* The PATCH of moderator m is served and its response handled.
ModeratorSettle(m) ==
  /\ moderators[m].status = "pending"
  /\ Patch(moderators[m].kind, moderators[m].id, ButtonBody(moderators[m].button))
  /\ moderators' =
       [n \in Moderators |->
          IF n = m
          THEN [moderators[n] EXCEPT !.status = MutationOutcome(resp'.statusCode),
                                     !.last = (resp'.error = "")]
          ELSE IF resp'.error = "" THEN [moderators[n] EXCEPT !.last = FALSE]
          ELSE moderators[n]]
  /\ UNCHANGED <<serial, page, inquiryTab, dashboard, desk>>

ModeratorClicks ==
  \E m \in Moderators : \E k \in Kinds : \E id \in DOMAIN store[k] : \E b \in ButtonNames :
    ModeratorClick(m, k, id, b)

ModeratorSettles == \E m \in Moderators : ModeratorSettle(m)

\* ------------------------------------------ dashboard.tsx: the inquiries tab

\* Text is a sequence of characters; the characters of the runs.
Alphabet == {"a", "A", "b"}

Texts(n) == UNION {[1 .. m -> Alphabet] : m \in 0 .. n}

\* An optional integer column: << >> is null, <<n>> the integer n.
Null == << >>

InquiryStatuses == {"pending", "replied", "closed"}

\* The status column is nullable: a status that is null or empty.
NoStatus == ""

\* The inquiries a fetch can return: a franchise, a business and a general
\* inquiry, one with both references and one whose reference is the integer 0
\* and whose status is null.
StoredInquiries ==
  {[id |-> 1, name |-> <<"A", "b">>, email |-> <<"a">>, subject |-> <<"b">>,
    status |-> "pending", franchiseId |-> <<1>>, businessId |-> Null],
   [id |-> 2, name |-> <<"b">>, email |-> <<"b", "A">>, subject |-> <<"A">>,
    status |-> "replied", franchiseId |-> Null, businessId |-> <<1>>],
   [id |-> 3, name |-> <<"b">>, email |-> <<"b">>, subject |-> <<"b", "b">>,
    status |-> "closed", franchiseId |-> Null, businessId |-> Null],
   [id |-> 4, name |-> <<"a", "A">>, email |-> <<"b">>, subject |-> <<"a", "b">>,
    status |-> "pending", franchiseId |-> <<1>>, businessId |-> <<1>>],
   [id |-> 5, name |-> <<"b", "a">>, email |-> <<"a", "b">>, subject |-> << >>,
    status |-> NoStatus, franchiseId |-> <<0>>, businessId |-> Null]}

\* The lists a fetch can return: inquiries with distinct ids, in any order.
InquiryLists ==
  {list \in UNION {[1 .. n -> StoredInquiries] : n \in 0 .. MaxInquiries} :
     \A i, j \in DOMAIN list : i # j => list[i].id # list[j].id}

StatusFilters == {"all"} \cup InquiryStatuses

TypeFilters == {"all", "franchise", "business", "general"}

\* String.prototype.toLowerCase
ToLowerCase(text) == [i \in DOMAIN text |-> IF text[i] = "A" THEN "a" ELSE text[i]]

\* String.prototype.includes
Includes(text, part) ==
  \E start \in 0 .. (Len(text) - Len(part)) : SubSeq(text, start + 1, start + Len(part)) = part

\* The value of an optional integer as a condition: null and 0 are false.
Truthy(value) == value # Null /\ value[1] # 0

\* Variant that compares the term as typed.
MatchesSearch_TermAsTyped(inquiry, term) ==
  \/ Includes(ToLowerCase(inquiry.name), term)
  \/ Includes(ToLowerCase(inquiry.email), term)
  \/ Includes(ToLowerCase(inquiry.subject), term)

MatchesSearch(inquiry, term) ==
  \/ Includes(ToLowerCase(inquiry.name), ToLowerCase(term))
  \/ Includes(ToLowerCase(inquiry.email), ToLowerCase(term))
  \/ Includes(ToLowerCase(inquiry.subject), ToLowerCase(term))

\* Variant without the "all" case.
MatchesStatus_NoAll(inquiry, filter) == inquiry.status = filter

MatchesStatus(inquiry, filter) == filter = "all" \/ inquiry.status = filter

MatchesType(inquiry, filter) ==
  \/ filter = "all"
  \/ filter = "franchise" /\ Truthy(inquiry.franchiseId)
  \/ filter = "business" /\ Truthy(inquiry.businessId)
  \/ filter = "general" /\ ~Truthy(inquiry.franchiseId) /\ ~Truthy(inquiry.businessId)

\* The type badge of an inquiry card.
getInquiryType(inquiry) ==
  IF Truthy(inquiry.franchiseId) THEN "Franchise"
  ELSE IF Truthy(inquiry.businessId) THEN "Business"
  ELSE "General"

\* The status badge of an inquiry card: inquiry.status || "pending".
StatusBadge(inquiry) == IF inquiry.status = NoStatus THEN "pending" ELSE inquiry.status

\* The Pending Inquiries statistic.
PendingCount == Cardinality({i \in DOMAIN inquiries : inquiries[i].status = "pending"})

\* The callback of inquiries.filter, under the page's three controls.
Matches(inquiry) ==
  /\ MatchesSearch(inquiry, searchTerm)
  /\ MatchesStatus(inquiry, statusFilter)
  /\ MatchesType(inquiry, typeFilter)

\* Array.prototype.filter with that callback.
RECURSIVE Filter(_)
Filter(list) ==
  IF list = << >> THEN << >>
  ELSE (IF Matches(Head(list)) THEN <<Head(list)>> ELSE << >>) \o Filter(Tail(list))

filteredInquiries == Filter(inquiries)

\* The inquiries query resolves.
FetchInquiries ==
  /\ \E list \in InquiryLists : inquiries' = list
  /\ UNCHANGED <<store, serial, resp, page, moderators, dashboard, desk, searchTerm, statusFilter, typeFilter>>

SetSearchTerm ==
  /\ \E term \in Texts(MaxTermLen) : searchTerm' = term
  /\ UNCHANGED <<store, serial, resp, page, moderators, dashboard, desk, inquiries, statusFilter, typeFilter>>

SetStatusFilter ==
  /\ \E value \in StatusFilters : statusFilter' = value
  /\ UNCHANGED <<store, serial, resp, page, moderators, dashboard, desk, inquiries, searchTerm, typeFilter>>

SetTypeFilter ==
  /\ \E value \in TypeFilters : typeFilter' = value
  /\ UNCHANGED <<store, serial, resp, page, moderators, dashboard, desk, inquiries, searchTerm, statusFilter>>

\* ------------------------------- dashboard.tsx: franchises and inquiry status

\* Rows in all four tables together.
PageRows ==
  TotalRows + Cardinality(DOMAIN franchises) + Cardinality(DOMAIN inquiryStore)

\* A franchise is submitted; it carries isActive and no status.
SubmitFranchise ==
  /\ PageRows < MaxViewRows
  /\ \E active \in BOOLEAN :
       LET id == Cardinality(DOMAIN franchises) + 1
       IN /\ franchises' = franchises @@ (id :> [isActive |-> active])
          /\ resp' = Response("POST", "franchise", id, NoRow, 201, "", NoRow,
                              [id |-> id, isActive |-> active], {}, "object")
  /\ UNCHANGED <<store, serial, clients, inquiryStore>>

\* An inquiry is submitted; it is stored as pending.
SubmitInquiry ==
  /\ PageRows < MaxViewRows
  /\ \E q \in StoredInquiries :
       /\ q.id = Cardinality(DOMAIN inquiryStore) + 1
       /\ inquiryStore' = inquiryStore @@ (q.id :> [q EXCEPT !.status = "pending"])
       /\ resp' = Response("POST", "inquiry", q.id, NoRow, 201, "", NoRow,
                           [id |-> q.id, status |-> "pending"], {}, "object")
  /\ UNCHANGED <<store, serial, clients, franchises>>

\* PATCH /franchises/{id}/status with body {isActive}.
PatchFranchise(id, body) ==
  IF id \notin DOMAIN franchises
  THEN /\ \E code \in {404, 500} :
            resp' = Response("PATCH", "franchise", id, body, code, "NotFound", NoRow,
                             NoResource, {}, "error")
       /\ UNCHANGED franchises
  ELSE \E dbOk \in BOOLEAN :
         IF dbOk
         THEN /\ franchises' = [franchises EXCEPT ![id].isActive = body.isActive]
              /\ resp' = Response("PATCH", "franchise", id, body, 200, "", franchises[id],
                                  [id |-> id, isActive |-> body.isActive], {}, "object")
         ELSE /\ resp' = Response("PATCH", "franchise", id, body, 500, "StoreFailure",
                                  franchises[id], NoResource, {}, "error")
              /\ UNCHANGED franchises

\* PATCH /inquiries/{id}/status with body {status}.
PatchInquiry(id, body) ==
  IF id \notin DOMAIN inquiryStore
  THEN /\ \E code \in {404, 500} :
            resp' = Response("PATCH", "inquiry", id, body, code, "NotFound", NoRow,
                             NoResource, {}, "error")
       /\ UNCHANGED inquiryStore
  ELSE \E dbOk \in BOOLEAN :
         IF dbOk
         THEN /\ inquiryStore' = [inquiryStore EXCEPT ![id].status = body.status]
              /\ resp' = Response("PATCH", "inquiry", id, body, 200, "",
                                  [status |-> inquiryStore[id].status],
                                  [id |-> id, status |-> body.status], {}, "object")
         ELSE /\ resp' = Response("PATCH", "inquiry", id, body, 500, "StoreFailure",
                                  [status |-> inquiryStore[id].status], NoResource, {},
                                  "error")
              /\ UNCHANGED inquiryStore

\* GET /inquiries: the full list, in the order of the ids.
InquiryList == [i \in 1 .. Cardinality(DOMAIN inquiryStore) |-> inquiryStore[i]]

\* Variant with Set Pending offered on a franchise as well.
FranchiseButtons_WithSetPending(franchise) ==
  (IF ~franchise.isActive THEN {"activate"} ELSE {})
    \cup (IF franchise.isActive THEN {"deactivate"} ELSE {})
    \cup {"setPending"}

\* The status buttons rendered for a franchise: Activate when it is not
\* active, Deactivate when it is.
FranchiseButtons(franchise) ==
  (IF ~franchise.isActive THEN {"activate"} ELSE {})
    \cup (IF franchise.isActive THEN {"deactivate"} ELSE {})

\* What the page sends for each franchise button.
FranchiseBody(button) ==
  CASE button = "activate"   -> [isActive |-> TRUE]
    [] button = "deactivate" -> [isActive |-> FALSE]

\* Variant with a third inquiry button that reopens.
InquiryButtons_WithReopen == {"replied", "closed", "pending"}

\* The status buttons of an inquiry card: Mark as Replied, Mark as Closed.
InquiryButtons == {"replied", "closed"}

\* What the page sends for each inquiry button.
InquiryBody(button) == [status |-> button]

\* The franchises query resolves.
FetchFranchises ==
  /\ view' = [view EXCEPT !["franchise"] = franchises]
  /\ refetching' = refetching \ {"franchise"}
  /\ UNCHANGED <<store, serial, resp, mutation, moderators, inquiryTab, dashboard, desk>>

\* The inquiries query resolves with the stored list.
FetchInquiryList ==
  /\ inquiries' = InquiryList
  /\ refetching' = refetching \ {"inquiry"}
  /\ UNCHANGED <<store, serial, resp, view, mutation, moderators, dashboard, searchTerm, statusFilter,
                 typeFilter, desk>>

\* A click on a rendered, enabled franchise button.
ClickFranchise(id, button) ==
  /\ id \in DOMAIN view["franchise"]
  /\ button \in FranchiseButtons(view["franchise"][id])
  /\ ~IsPending("franchise")
  /\ mutation' = [mutation EXCEPT !["franchise"] =
                    [status |-> "pending", id |-> id, button |-> button]]
  /\ UNCHANGED <<store, serial, resp, view, refetching, moderators, inquiryTab, dashboard, desk>>

\* A click on an enabled button of a listed inquiry.
ClickInquiry(i, button) ==
  /\ i \in DOMAIN filteredInquiries
  /\ button \in InquiryButtons
  /\ ~IsPending("inquiry")
  /\ mutation' = [mutation EXCEPT !["inquiry"] =
                    [status |-> "pending", id |-> filteredInquiries[i].id, button |-> button]]
  /\ UNCHANGED <<store, serial, resp, view, refetching, moderators, inquiryTab, dashboard, desk>>

\* Variant whose onSuccess does not refetch.
SettleFranchise_NoRefetch ==
  /\ IsPending("franchise")
  /\ PatchFranchise(mutation["franchise"].id, FranchiseBody(mutation["franchise"].button))
  /\ mutation' = [mutation EXCEPT !["franchise"] = Settled(MutationOutcome(resp'.statusCode))]
  /\ UNCHANGED <<store, serial, view, refetching, moderators, inquiryTab, dashboard, inquiryStore>>

\* The franchise PATCH is served and its response handled.
SettleFranchise ==
  /\ IsPending("franchise")
  /\ PatchFranchise(mutation["franchise"].id, FranchiseBody(mutation["franchise"].button))
  /\ mutation' = [mutation EXCEPT !["franchise"] = Settled(MutationOutcome(resp'.statusCode))]
  /\ refetching' = IF MutationOutcome(resp'.statusCode) = "success"
                   THEN refetching \cup {"franchise"} ELSE refetching
  /\ UNCHANGED <<store, serial, view, moderators, inquiryTab, dashboard, inquiryStore>>

\* The inquiry PATCH is served and its response handled.
SettleInquiry ==
  /\ IsPending("inquiry")
  /\ PatchInquiry(mutation["inquiry"].id, InquiryBody(mutation["inquiry"].button))
  /\ mutation' = [mutation EXCEPT !["inquiry"] = Settled(MutationOutcome(resp'.statusCode))]
  /\ refetching' = IF MutationOutcome(resp'.statusCode) = "success"
                   THEN refetching \cup {"inquiry"} ELSE refetching
  /\ UNCHANGED <<store, serial, view, moderators, inquiryTab, dashboard, franchises>>

ClickFranchiseButton ==
  \E id \in DOMAIN view["franchise"] : \E b \in ButtonNames : ClickFranchise(id, b)

ClickInquiryButton ==
  \E i \in DOMAIN filteredInquiries : \E b \in InquiryStatuses : ClickInquiry(i, b)

\* The query of collection k resolves.
FetchOf(k) ==
  CASE k \in Kinds    -> FetchList(k)
    [] k = "franchise" -> FetchFranchises
    [] k = "inquiry"   -> FetchInquiryList

\* The refetch that onSuccess asked for.
Refetch(k) == k \in refetching /\ FetchOf(k)

\* ------------------------------------------ dashboard.tsx: the user dashboard

\* The rest of the state, which the user dashboard leaves alone.
moderation == <<store, serial, resp, page, moderators, inquiryTab, desk>>

\* useAuth returns another pair: the session is being read, is there, or is not.
UseAuth ==
  /\ \E loading, authenticated \in BOOLEAN :
       /\ <<loading, authenticated>> # <<dashboard.isLoading, dashboard.isAuthenticated>>
       /\ dashboard' = [dashboard EXCEPT !.isLoading = loading,
                                         !.isAuthenticated = authenticated]
  /\ UNCHANGED moderation

\* Variant with the queries enabled whatever the session.
QueryEnabled_Always == TRUE

\* enabled: isAuthenticated
QueryEnabled == dashboard.isAuthenticated

\* An enabled query that is not fetching starts a fetch (on mount, when it
\* becomes enabled, or to refresh what it has).
StartFetch(q) ==
  /\ QueryEnabled
  /\ ~dashboard.fetching[q]
  /\ dashboard' = [dashboard EXCEPT !.fetching[q] = TRUE]
  /\ UNCHANGED moderation

\* A fetch resolves: with the user's listings, which the query keeps, or with
\* an error, which leaves what the query had.
ResolveFetch(q) ==
  /\ dashboard.fetching[q]
  /\ \E ok \in BOOLEAN :
       dashboard' = [dashboard EXCEPT !.fetching[q] = FALSE,
                                      !.data[q] = IF ok THEN TRUE ELSE @]
  /\ UNCHANGED moderation

\* What Dashboard returns: the spinner, the Access Denied card or the content.
Screen ==
  IF dashboard.isLoading THEN "spinner"
  ELSE IF ~dashboard.isAuthenticated THEN "accessDenied"
  ELSE "content"

\* The queries whose listings are on the screen.
ShownListings ==
  IF Screen = "content" THEN {q \in UserQueries : dashboard.data[q]} ELSE {}

StartFetches == \E q \in UserQueries : StartFetch(q)

ResolveFetches == \E q \in UserQueries : ResolveFetch(q)

DashNext ==
  \/ UseAuth
  \/ StartFetches
  \/ ResolveFetches

DashSpec == Init /\ [][DashNext]_vars

Next ==
  \/ HandlerOptions
  \/ HandlerGet
  \/ HandlerPost
  \/ HandlerPostFails
  \/ HandlerOther
  \/ CreateBusiness
  \/ PatchStatus

Spec == Init /\ [][Next]_vars

\* The moderation page and the submissions it moderates.
ViewNext ==
  \/ (TotalRows < MaxViewRows /\ HandlerPost)
  \/ (TotalRows < MaxViewRows /\ CreateBusiness)
  \/ Fetch
  \/ ClickButton
  \/ SettleMutation

ViewSpec == Init /\ [][ViewNext]_vars

\* The advertisements function under every request, a body that names an id
\* included, and the status endpoint.
ApiNext ==
  \/ HandlerOptions
  \/ HandlerGet
  \/ HandlerPost
  \/ HandlerPostWithId
  \/ HandlerPostFails
  \/ HandlerOther
  \/ PatchStatus

ApiSpec == Init /\ [][ApiNext]_vars

\* The inquiries tab: the fetched list and the three filter controls.
FilterNext ==
  \/ FetchInquiries
  \/ SetSearchTerm
  \/ SetStatusFilter
  \/ SetTypeFilter

FilterSpec == Init /\ [][FilterNext]_vars

\* The moderation page with its four mutations and the submissions.
PageNext ==
  \/ (PageRows < MaxViewRows /\ HandlerPost)
  \/ (PageRows < MaxViewRows /\ CreateBusiness)
  \/ SubmitFranchise
  \/ SubmitInquiry
  \/ Fetch
  \/ FetchFranchises
  \/ FetchInquiryList
  \/ ClickButton
  \/ ClickFranchiseButton
  \/ ClickInquiryButton
  \/ SettleMutation
  \/ SettleFranchise
  \/ SettleInquiry

PageSpec == Init /\ [][PageNext]_vars

\* The same, with every refetch that was asked for eventually resolving.
LivePageSpec == PageSpec /\ \A k \in PageKinds : WF_vars(Refetch(k))

\* Two moderators and the submissions they moderate.
ConcNext ==
  \/ (TotalRows < MaxViewRows /\ HandlerPost)
  \/ (TotalRows < MaxViewRows /\ CreateBusiness)
  \/ ModeratorClicks
  \/ ModeratorSettles

ConcSpec == Init /\ [][ConcNext]_vars

\* ------------------------------------------------------------------ claims

\* The pairing of the two lifecycle fields.
Consistent(row) ==
  /\ (row.status = "active" => row.isActive = TRUE)
  /\ (row.status \in {"pending", "inactive"} => row.isActive = FALSE)

\* The listing is one the public read returns.
Visible(k, id) == Exists(k, id) /\ Resource(id, store[k][id]) \in SelectActive(k)

\* The last request was a status request the store applied.
PatchApplied == resp.op = "PATCH" /\ resp.error = ""

\* The last request was an applied status request carrying a button's body.
Transitioned(button) == PatchApplied /\ resp.req = ButtonBody(button)

\* C1: in every reachable state every advertisement and business row pairs
\* its fields: active implies isActive, pending or inactive implies not isActive.
C1_PairingInvariant ==
  \A k \in Kinds : \A id \in DOMAIN store[k] : Consistent(store[k][id])

\* C2: the public GET returns exactly the rows whose isActive is true, and
\* so never a row whose status is pending or inactive.
C2_PublicGetOnlyActiveStatus ==
  (resp.op = "GET" /\ resp.statusCode = 200) =>
    /\ resp.list = {Resource(id, store["advertisement"][id]) :
                      id \in {i \in DOMAIN store["advertisement"] :
                                store["advertisement"][i].isActive = TRUE}}
    /\ \A r \in resp.list : r.status \notin {"pending", "inactive"}

\* C3: a row created by POST /advertisements is pending and not active right
\* after its creation, whatever the body held.
C3_PostCreatesPending ==
  (resp.op = "POST" /\ resp.kind = "advertisement" /\ resp.statusCode = 201) =>
    Lookup("advertisement", resp.id) = [status |-> "pending", isActive |-> FALSE]

\* C4: an advertisement enters the public read only by an applied transition
\* to {active, true} (so a new one is absent from it), and leaves it only by
\* an applied deactivate or set-pending.
C4_VisibleOnlyBetweenTransitions ==
  [][\A id \in 1 .. MaxRows :
       /\ (~Visible("advertisement", id) /\ Visible("advertisement", id)') =>
            (/\ resp'.op = "PATCH" /\ resp'.error = ""
             /\ resp'.kind = "advertisement" /\ resp'.id = id
             /\ resp'.req = [status |-> "active", isActive |-> TRUE])
       /\ (Visible("advertisement", id) /\ ~Visible("advertisement", id)') =>
            (/\ resp'.op = "PATCH" /\ resp'.error = ""
             /\ resp'.kind = "advertisement" /\ resp'.id = id
             /\ resp'.req \in {[status |-> "inactive", isActive |-> FALSE],
                                [status |-> "pending", isActive |-> FALSE]})]_vars

\* C5: after an activate that succeeded, the listing reads active with
\* isActive true, whatever it was before.
C5_ActivateSetsActive ==
  (Transitioned("activate") /\ MutationOutcome(resp.statusCode) = "success") =>
    /\ Lookup(resp.kind, resp.id) = [status |-> "active", isActive |-> TRUE]
    /\ resp.row = Resource(resp.id, [status |-> "active", isActive |-> TRUE])
    /\ Visible(resp.kind, resp.id)

C5_Witness ==
  /\ Transitioned("activate") /\ MutationOutcome(resp.statusCode) = "success"
  /\ resp.before = [status |-> "inactive", isActive |-> FALSE]

\* C6: after a deactivate that succeeded, the listing reads inactive with
\* isActive false, whatever it was before.
C6_DeactivateSetsInactive ==
  (Transitioned("deactivate") /\ MutationOutcome(resp.statusCode) = "success") =>
    /\ Lookup(resp.kind, resp.id) = [status |-> "inactive", isActive |-> FALSE]
    /\ resp.row = Resource(resp.id, [status |-> "inactive", isActive |-> FALSE])

C6_Witness ==
  /\ Transitioned("deactivate") /\ MutationOutcome(resp.statusCode) = "success"
  /\ resp.before = [status |-> "active", isActive |-> TRUE]

\* C7: after a set-pending that succeeded, the listing reads pending with
\* isActive false, whatever it was before (active included), and the public
\* read no longer returns it.
C7_SetPendingSetsPending ==
  (Transitioned("setPending") /\ MutationOutcome(resp.statusCode) = "success") =>
    /\ Lookup(resp.kind, resp.id) = [status |-> "pending", isActive |-> FALSE]
    /\ resp.row = Resource(resp.id, [status |-> "pending", isActive |-> FALSE])
    /\ ~Visible(resp.kind, resp.id)

C7_Witness ==
  /\ Transitioned("setPending") /\ MutationOutcome(resp.statusCode) = "success"
  /\ resp.before = [status |-> "active", isActive |-> TRUE]
  /\ resp.kind = "advertisement"

\* C8: a button's transition sent again right after it was applied leaves
\* the store as it is, and the second call succeeds with the same resource
\* (unless the store itself fails, and then too nothing changes).
C8_TransitionsIdempotent ==
  [][((\E b \in ButtonNames : Transitioned(b))
        /\ resp'.op = "PATCH" /\ resp'.kind = resp.kind
        /\ resp'.id = resp.id /\ resp'.req = resp.req) =>
       /\ store' = store
       /\ (resp'.error # "StoreFailure" =>
             /\ MutationOutcome(resp'.statusCode) = "success"
             /\ resp'.row = resp.row)]_vars

C8_Witness ==
  /\ \E b \in ButtonNames : Transitioned(b) /\ resp.before = ButtonBody(b)
  /\ MutationOutcome(resp.statusCode) = "success"

\* C10: a status request on an identifier that resolves to no row fails with
\* NotFound, changes no row and creates none, and the moderation page's
\* mutation takes the response as a failure.
C10_NotFoundChangesNothing ==
  [][(resp'.op = "PATCH" /\ ~Exists(resp'.kind, resp'.id)) =>
       /\ store' = store
       /\ resp'.error = "NotFound"
       /\ resp'.row = NoResource
       /\ MutationOutcome(resp'.statusCode) = "error"]_vars

C10_Witness ==
  /\ resp.op = "PATCH" /\ resp.error = "NotFound"
  /\ ~Exists(resp.kind, resp.id)
  /\ TotalRows > 0

\* The moderation page shows listing id of kind k as the store holds it, and
\* no mutation of the kind is pending.
ShownFresh(k, id) == id \in DOMAIN view[k] /\ view[k] = store[k] /\ ~IsPending(k)

\* C9 as claimed: for an existing listing in any of the three states, each
\* of activate, deactivate and set-pending is available to the moderator.
C9_EveryTransitionOffered ==
  \A k \in Kinds : \A id \in DOMAIN store[k] :
    ShownFresh(k, id) => \A b \in ButtonNames : ENABLED Click(k, id, b)

\* C9 as amended: for a listing of the fetched list, with no mutation of its
\* kind pending, set-pending is available always, activate exactly when the
\* listing is shown not active, deactivate exactly when it is shown active.
C9_TransitionsOfferedByIsActive ==
  \A k \in Kinds : \A id \in DOMAIN view[k] :
    ~IsPending(k) =>
      /\ ENABLED Click(k, id, "setPending")
      /\ (ENABLED Click(k, id, "activate")) <=> ~view[k][id].isActive
      /\ (ENABLED Click(k, id, "deactivate")) <=> view[k][id].isActive

C9_Witness ==
  \E k \in Kinds : \E id \in DOMAIN store[k] :
    /\ ShownFresh(k, id)
    /\ store[k][id] = [status |-> "pending", isActive |-> FALSE]
    /\ mutation[k].status = "success"
    /\ ENABLED Click(k, id, "activate")
    /\ ~ENABLED Click(k, id, "deactivate")

\* C11: after a status request on an existing listing, applied or failed, the
\* row holds both requested values or both earlier values, never one of each;
\* the page sees a success exactly in the first case and an error in the second.
C11_StatusMutationAtomic ==
  (resp.op = "PATCH" /\ Exists(resp.kind, resp.id)) =>
    LET row    == store[resp.kind][resp.id]
        isNew  == row.status = resp.req.status /\ row.isActive = resp.req.isActive
        isOld  == row.status = resp.before.status /\ row.isActive = resp.before.isActive
    IN /\ isNew \/ isOld
       /\ MutationOutcome(resp.statusCode) = "success" => isNew
       /\ MutationOutcome(resp.statusCode) = "error" => isOld

\* A failed request that would have changed both fields left both as they were.
C11_Witness ==
  /\ resp.op = "PATCH"
  /\ resp.error = "StoreFailure"
  /\ resp.before.status # resp.req.status
  /\ resp.before.isActive # resp.req.isActive
  /\ Lookup(resp.kind, resp.id) = resp.before
  /\ MutationOutcome(resp.statusCode) = "error"

\* Both moderators' requests on one listing were in flight together and both
\* were applied.
RaceOver ==
  /\ \A m \in Moderators : moderators[m].status = "success" /\ moderators[m].overlap
  /\ moderators["m1"].kind = moderators["m2"].kind
  /\ moderators["m1"].id = moderators["m2"].id

\* The row (k, id) holds the pair of button b, whole.
HoldsPairOf(row, b) ==
  \/ b = "activate"   /\ row.status = "active"   /\ row.isActive = TRUE
  \/ b = "deactivate" /\ row.status = "inactive" /\ row.isActive = FALSE
  \/ b = "setPending" /\ row.status = "pending"  /\ row.isActive = FALSE

\* After a race the row holds the whole pair of the request applied last.
C12_AfterRace ==
  RaceOver =>
    LET row == Lookup(moderators["m1"].kind, moderators["m1"].id)
    IN /\ \E m \in Moderators :
            /\ moderators[m].last
            /\ ~moderators[Rival(m)].last
            /\ HoldsPairOf(row, moderators[m].button)
       /\ Consistent(row)

\* A request served while the rival's request on the same listing is in
\* flight meets no conflict: it is applied whole, or the store fails and the
\* row stays; the rival's request stays in flight.
C12_ServedInRace ==
  \A m \in Moderators :
    (/\ moderators[m].status = "pending"
     /\ InFlightOn(Rival(m), moderators[m].kind, moderators[m].id)
     /\ moderators'[m].status # "pending")
    => LET k == moderators[m].kind
           id == moderators[m].id
       IN /\ resp'.error \in {"", "StoreFailure"}
          /\ resp'.error = "" =>
               /\ moderators'[m].status = "success"
               /\ HoldsPairOf(store'[k][id], moderators[m].button)
          /\ resp'.error # "" => store'[k][id] = store[k][id]
          /\ moderators'[Rival(m)].status = "pending"

\* C12: two moderators' transitions on one listing, in flight together, are
\* both applied without a conflict, in every interleaving; the listing ends
\* with the whole (status, isActive) pair of the request applied last, never a
\* mixture of the two, and the pairing of the fields holds afterwards.
C12_LastWriteWins == [](C12_AfterRace) /\ [][C12_ServedInRace]_vars

\* Activate and Set Pending raced on one listing, Activate was applied first:
\* the listing is pending.
C12_Witness ==
  /\ RaceOver
  /\ moderators["m1"].button = "activate"
  /\ moderators["m2"].button = "setPending"
  /\ moderators["m2"].last
  /\ Lookup(moderators["m1"].kind, moderators["m1"].id)
       = [status |-> "pending", isActive |-> FALSE]

\* No step removes a listing.
C13_IdsKept == \A k \in Kinds : DOMAIN store[k] \subseteq DOMAIN store'[k]

\* A deactivated listing is still stored, with isActive false.
C13_DeactivatedStays ==
  Transitioned("deactivate") =>
    Exists(resp.kind, resp.id) /\ store[resp.kind][resp.id].isActive = FALSE

\* C13: listings are never removed: across GET, POST, the three transitions,
\* OPTIONS and the unsupported methods the set of ids of a table never loses
\* an element; deactivating a listing only sets its isActive to false.
C13_ListingsNeverRemoved == [](C13_DeactivatedStays) /\ [][C13_IdsKept]_vars

\* A deactivated listing next to another one: both are still stored.
C13_Witness ==
  /\ Transitioned("deactivate")
  /\ resp.before.isActive = TRUE
  /\ Exists(resp.kind, resp.id)
  /\ Cardinality(DOMAIN store[resp.kind]) >= 2

\* C14: the id of a listing is assigned by the store on creation (the next
\* value of the table's sequence), never changes and is never given to a
\* second listing: whatever a POST body holds, an id included, every step keeps
\* the existing listings under their ids, and a listing it creates gets the
\* sequence's id, which no listing had.
C14_IdAssignedByStore ==
  [][\A k \in Kinds :
       /\ DOMAIN store[k] \subseteq DOMAIN store'[k]
       /\ (resp'.op = "PATCH" \/ resp'.statusCode # 201) => DOMAIN store'[k] = DOMAIN store[k]
       /\ \A id \in DOMAIN store'[k] \ DOMAIN store[k] :
            /\ id = serial[k]
            /\ DOMAIN store'[k] = DOMAIN store[k] \cup {id}
            /\ \A old \in DOMAIN store[k] : store'[k][old] = store[k][old]]_vars

SameLetter(c, d) == c = d \/ {c, d} = {"a", "A"}

\* The term occurs in the text at some offset, character by character,
\* whatever the case of either.
OccursIn(term, text) ==
  \E start \in 0 .. Len(text) :
    /\ start + Len(term) <= Len(text)
    /\ \A j \in 1 .. Len(term) : SameLetter(term[j], text[start + j])

\* The text with the case of every letter swapped.
SwapCase(text) ==
  [i \in DOMAIN text |-> IF text[i] = "a" THEN "A" ELSE IF text[i] = "A" THEN "a" ELSE text[i]]

\* C16: an inquiry matches the search exactly when the term, case aside,
\* occurs in its name, its email or its subject; the case of the term and of
\* the fields makes no difference, and the empty term matches every inquiry.
C16_SearchPredicate ==
  \A i \in DOMAIN inquiries :
    LET inquiry == inquiries[i]
        swapped == [inquiry EXCEPT !.name = SwapCase(@), !.email = SwapCase(@),
                                   !.subject = SwapCase(@)]
    IN /\ MatchesSearch(inquiry, searchTerm)
            <=> \/ OccursIn(searchTerm, inquiry.name)
                \/ OccursIn(searchTerm, inquiry.email)
                \/ OccursIn(searchTerm, inquiry.subject)
       /\ MatchesSearch(inquiry, SwapCase(searchTerm)) <=> MatchesSearch(inquiry, searchTerm)
       /\ MatchesSearch(swapped, searchTerm) <=> MatchesSearch(inquiry, searchTerm)
       /\ MatchesSearch(inquiry, << >>)

\* An upper-case term matched an inquiry through a field that holds it in
\* lower case only, while another fetched inquiry did not match.
C16_Witness ==
  /\ searchTerm = <<"A", "b">>
  /\ \E i, j \in DOMAIN inquiries :
       /\ MatchesSearch(inquiries[i], searchTerm)
       /\ ~Includes(inquiries[i].name, searchTerm)
       /\ ~Includes(inquiries[i].email, searchTerm)
       /\ ~Includes(inquiries[i].subject, searchTerm)
       /\ ~MatchesSearch(inquiries[j], searchTerm)

\* The positions of the fetched list that the three predicates keep.
Kept ==
  {i \in DOMAIN inquiries :
     /\ \/ OccursIn(searchTerm, inquiries[i].name)
        \/ OccursIn(searchTerm, inquiries[i].email)
        \/ OccursIn(searchTerm, inquiries[i].subject)
     /\ statusFilter = "all" \/ inquiries[i].status = statusFilter
     /\ typeFilter = "all" \/ MatchesType(inquiries[i], typeFilter)}

\* C17: the list shown is exactly the sub-list of the fetched list that
\* satisfies the search, status and type predicates: every kept inquiry once,
\* unaltered, in the order of the fetched list, and no other.
C17_FilteredIsSubList ==
  /\ Len(filteredInquiries) = Cardinality(Kept)
  /\ \E at \in [1 .. Len(filteredInquiries) -> Kept] :
       /\ \A a, b \in 1 .. Len(filteredInquiries) : a < b => at[a] < at[b]
       /\ \A a \in 1 .. Len(filteredInquiries) : filteredInquiries[a] = inquiries[at[a]]

\* Of two fetched inquiries the status filter alone keeps the second.
C17_Witness ==
  /\ Len(inquiries) = 2
  /\ searchTerm = << >>
  /\ typeFilter = "all"
  /\ statusFilter # "all"
  /\ filteredInquiries = <<inquiries[2]>>

\* C18: a GET whose query finds no active advertisement answers 200 with the
\* empty array, not an error; every GET that succeeds answers 200 with an
\* array, the active advertisements; the only other answer is the 500 of a
\* query that threw.
C18_GetAnswersArray ==
  resp.op = "GET" =>
    \/ /\ resp.statusCode = 200
       /\ resp.error = ""
       /\ resp.body = "array"
       /\ \A r \in resp.list :
            /\ r.id \in DOMAIN store["advertisement"]
            /\ r.isActive = TRUE
            /\ r.status = store["advertisement"][r.id].status
       /\ \A id \in DOMAIN store["advertisement"] :
            store["advertisement"][id].isActive = TRUE => \E r \in resp.list : r.id = id
    \/ /\ resp.statusCode = 500
       /\ resp.error = "Internal server error"

\* A GET over a table that holds advertisements, none active: 200 and [].
C18_Witness ==
  /\ resp.op = "GET"
  /\ resp.statusCode = 200
  /\ resp.body = "array"
  /\ resp.list = {}
  /\ DOMAIN store["advertisement"] # {}

\* The response is one of the advertisements function.
FromHandler == resp.op \in Methods /\ resp.kind = "advertisement"

\* The status codes of the function, by method, and the error bodies.
HandlerCodes ==
  /\ resp.statusCode \in {200, 201, 405, 500}
  /\ resp.op = "OPTIONS" => resp.statusCode = 200
  /\ resp.op = "GET" => resp.statusCode \in {200, 500}
  /\ resp.op = "POST" => resp.statusCode \in {201, 500}
  /\ resp.op \notin {"OPTIONS", "GET", "POST"} => resp.statusCode = 405
  /\ resp.statusCode = 405 => resp.error = "Method not allowed"
  /\ resp.statusCode = 500 => resp.error = "Internal server error"
  /\ ~ResponseOk(resp.statusCode) <=> resp.body = "error"
  /\ resp.body = "error" <=> resp.error # ""

\* C19: every response of the function has one of the codes 200 (GET and
\* OPTIONS), 201 (a POST that succeeds), 405 (any other method) and 500 (a
\* failure); every response is JSON, and every response that is not 2xx has
\* the body {error: <string>}.
C19_EveryResponseJson == FromHandler => (HandlerCodes /\ resp.body # "none")

\* C19, amended: the same, except that the OPTIONS response carries no body:
\* every other response is JSON.
C19_EveryResponseButOptionsJson ==
  FromHandler => (HandlerCodes /\ (resp.body = "none" <=> resp.op = "OPTIONS"))

\* An OPTIONS request over a table that holds advertisements: 200, no body.
C19_Witness ==
  /\ FromHandler
  /\ resp.op = "OPTIONS"
  /\ resp.statusCode = 200
  /\ resp.body = "none"
  /\ DOMAIN store["advertisement"] # {}

C21_FailureIsOne500 ==
  [][(/\ resp'.op \in {"GET", "POST"}
      /\ resp'.kind = "advertisement"
      /\ ~ResponseOk(resp'.statusCode))
     => /\ resp'.statusCode = 500
        /\ resp'.body = "error"
        /\ resp'.error = "Internal server error"
        /\ resp'.row = NoResource
        /\ resp'.list = {}
        /\ store' = store]_vars

\* A POST failed over a table that holds an advertisement.
C21_Witness ==
  /\ resp.op = "POST"
  /\ resp.kind = "advertisement"
  /\ resp.statusCode = 500
  /\ resp.error = "Internal server error"
  /\ DOMAIN store["advertisement"] # {}

\* A step changes a stored row only by applying a status request on it; the
\* function writes nothing except through a POST, which adds one row.
C22_Step ==
  /\ \A k \in Kinds : \A id \in DOMAIN store[k] :
       ((id \in DOMAIN store'[k] /\ store'[k][id] # store[k][id])
          => (resp'.op = "PATCH" /\ resp'.error = "" /\ resp'.kind = k /\ resp'.id = id))
  /\ ((resp'.kind = "advertisement" /\ resp'.op \in Methods \ {"POST"}) => store' = store)
  /\ (resp'.kind = "advertisement" /\ resp'.op = "POST" /\ resp'.statusCode = 201) =>
       /\ resp'.row.id \notin DOMAIN store["advertisement"]
       /\ DOMAIN store'["advertisement"] = DOMAIN store["advertisement"] \cup {resp'.row.id}
       /\ \A old \in DOMAIN store["advertisement"] :
            store'["advertisement"][old] = store["advertisement"][old]
       /\ store'["business"] = store["business"]

Shows(k) ==
  CASE k \in Kinds    -> view[k] = AdminList(k)
    [] k = "franchise" -> view["franchise"] = franchises
    [] k = "inquiry"   -> inquiries = InquiryList

\* A mutation that settles asks for the refetch of its collection when it
\* succeeded; when it failed it asks for none and ends in its error state.
C23_Settled ==
  \A k \in PageKinds :
    (IsPending(k) /\ mutation'[k].status # "pending") =>
      /\ mutation'[k].status \in {"success", "error"}
      /\ mutation'[k].status = "success" <=> resp'.error = ""
      /\ mutation'[k].status = "success" => k \in refetching'
      /\ mutation'[k].status = "error" => refetching' = refetching

\* C23: every status mutation of the page that succeeds (inquiry,
\* advertisement, business, franchise) is followed by a refetch of its
\* collection, after which the page shows the collection as stored; a mutation
\* that fails triggers no refetch and reports an error.
C23_SuccessRefetches ==
  /\ [][C23_Settled]_vars
  /\ \A k \in PageKinds : (k \in refetching) ~> (k \notin refetching /\ Shows(k))

\* A franchise mutation succeeded and the refetch is still to come: the page
\* shows the franchise as it was.
C23_Witness ==
  /\ "franchise" \in refetching
  /\ mutation["franchise"].status = "success"
  /\ view["franchise"] # franchises

\* The three pairs of the pairing invariant.
SentPairs ==
  {[status |-> "active",   isActive |-> TRUE],
   [status |-> "inactive", isActive |-> FALSE],
   [status |-> "pending",  isActive |-> FALSE]}

\* Every button a shown listing offers, and every request in flight or
\* answered, carries one of the three pairs.
C24_Sent ==
  /\ \A k \in Kinds : \A id \in DOMAIN view[k] : \A b \in Buttons(view[k][id]) :
       ButtonBody(b) \in SentPairs /\ Consistent(ButtonBody(b))
  /\ \A k \in Kinds : IsPending(k) => ButtonBody(mutation[k].button) \in SentPairs
  /\ resp.op = "PATCH" => resp.req \in SentPairs

\* A request of the page that succeeds leaves its row consistent.
C24_Step ==
  \A k \in Kinds :
    (IsPending(k) /\ mutation'[k].status = "success")
      => /\ Exists(k, mutation[k].id)
         /\ Consistent(store'[k][mutation[k].id])

\* C24: every advertisement or business status request the moderation page
\* can issue carries (active, true), (inactive, false) or (pending, false),
\* and one successful request of the page leaves its row consistent, whatever
\* the row was before.
C24_ViewSendsConsistentPairs == []C24_Sent /\ [][C24_Step]_vars

\* A successful request of the page has made an inconsistent row consistent.
C24_Witness ==
  /\ PatchApplied
  /\ ~Consistent(resp.before)
  /\ resp.before.status = "active"
  /\ Consistent(Lookup(resp.kind, resp.id))
  /\ mutation[resp.kind].status = "success"

\* The Activate and Deactivate buttons among a set of offered buttons are
\* exactly the one isActive decides.
OneToggle(buttons, isActive) ==
  buttons \cap {"activate", "deactivate"} = IF isActive THEN {"deactivate"} ELSE {"activate"}

\* C25: every advertisement, business and franchise the moderation page shows
\* is offered exactly one of Activate and Deactivate, Activate iff isActive is
\* false and Deactivate iff it is true, whatever the status; a franchise is
\* offered no Set Pending and its request carries isActive and nothing else.
C25_OneToggleByIsActive ==
  /\ \A row \in Rows : OneToggle(Buttons(row), row.isActive)
  /\ \A k \in Kinds : \A id \in DOMAIN view[k] :
       OneToggle(Buttons(view[k][id]), view[k][id].isActive)
  /\ \A id \in DOMAIN view["franchise"] :
       /\ OneToggle(FranchiseButtons(view["franchise"][id]), view["franchise"][id].isActive)
       /\ FranchiseButtons(view["franchise"][id]) \subseteq {"activate", "deactivate"}
       /\ \A b \in FranchiseButtons(view["franchise"][id]) :
            FranchiseBody(b) = [isActive |-> ~view["franchise"][id].isActive]
  /\ IsPending("franchise") => mutation["franchise"].button \in {"activate", "deactivate"}
  /\ (resp.op = "PATCH" /\ resp.kind = "franchise") => DOMAIN resp.req = {"isActive"}

\* An active franchise is shown after the page's Activate request was applied.
C25_Witness ==
  /\ resp.op = "PATCH" /\ resp.kind = "franchise" /\ resp.error = ""
  /\ resp.req = [isActive |-> TRUE]
  /\ \E id \in DOMAIN view["franchise"] :
       /\ view["franchise"][id].isActive
       /\ FranchiseButtons(view["franchise"][id]) = {"deactivate"}

\* What the page can send for an inquiry, and what it offers on a listed one:
\* both buttons, whatever the inquiry's status, unless a mutation is pending.
C26_Sent ==
  /\ IsPending("inquiry") => InquiryBody(mutation["inquiry"].button).status \in {"replied", "closed"}
  /\ (resp.op = "PATCH" /\ resp.kind = "inquiry") => resp.req.status \in {"replied", "closed"}
  /\ ~IsPending("inquiry") =>
       \A i \in DOMAIN filteredInquiries :
         ENABLED ClickInquiry(i, "replied") /\ ENABLED ClickInquiry(i, "closed")

\* No step makes pending an inquiry that has left pending, and a request of
\* the page that succeeds sets the status of its button.
C26_Step ==
  /\ \A id \in DOMAIN inquiryStore :
       inquiryStore[id].status # "pending" => inquiryStore'[id].status # "pending"
  /\ (IsPending("inquiry") /\ mutation'["inquiry"].status = "success")
       => inquiryStore'[mutation["inquiry"].id].status = mutation["inquiry"].button

\* C26: through the moderation page an inquiry's status is only set to replied
\* or closed; no action of the page sends pending, so an inquiry that has left
\* pending never becomes pending again, while replied and closed are each
\* reached from the other by the two buttons.
C26_InquiryNeverReopens == []C26_Sent /\ [][C26_Step]_vars

\* The page has moved an inquiry from closed to replied.
C26_Witness ==
  /\ resp.op = "PATCH" /\ resp.kind = "inquiry" /\ resp.error = ""
  /\ resp.before.status = "closed"
  /\ resp.req.status = "replied"
  /\ inquiryStore[resp.id].status = "replied"

\* The three type labels in lower case.
LowerLabel(label) ==
  CASE label = "Franchise" -> "franchise"
    [] label = "Business"  -> "business"
    [] label = "General"   -> "general"

\* C27: the type label agrees with the type filter: under a type filter other
\* than all, a fetched inquiry is listed exactly when the filter is the
\* lower-cased label getInquiryType gives it, an inquiry with both references
\* set or with a reference equal to 0 included.
C27_LabelAgreesWithFilter ==
  \A i \in DOMAIN inquiries :
    typeFilter # "all" =>
      (MatchesType(inquiries[i], typeFilter)
         <=> typeFilter = LowerLabel(getInquiryType(inquiries[i])))

\* The inquiry is on the filtered list.
Listed(inquiry) == \E j \in DOMAIN filteredInquiries : filteredInquiries[j] = inquiry

\* C28: the status badge agrees with the status filter and the pending
\* counter: every fetched inquiry whose badge reads pending, one whose stored
\* status is empty or null included, is listed under the status filter pending
\* (the other two controls permitting) and is counted as pending.
C28_BadgeAgreesWithFilter ==
  /\ \A i \in DOMAIN inquiries :
       (/\ StatusBadge(inquiries[i]) = "pending"
        /\ statusFilter = "pending"
        /\ MatchesSearch(inquiries[i], searchTerm)
        /\ MatchesType(inquiries[i], typeFilter)) => Listed(inquiries[i])
  /\ PendingCount = Cardinality({i \in DOMAIN inquiries : StatusBadge(inquiries[i]) = "pending"})

\* The mutation of a kind is in flight.
InFlight(k) == mutation[k].status = "pending"

\* While a mutation of a kind is in flight no button of that kind can be
\* clicked, on any listing.
C29_Disabled ==
  /\ \A k \in Kinds : InFlight(k) =>
       \A id \in DOMAIN view[k] : \A b \in ButtonNames : ~ENABLED Click(k, id, b)
  /\ InFlight("franchise") =>
       \A id \in DOMAIN view["franchise"] : \A b \in ButtonNames : ~ENABLED ClickFranchise(id, b)
  /\ InFlight("inquiry") =>
       \A i \in DOMAIN filteredInquiries : \A b \in InquiryStatuses : ~ENABLED ClickInquiry(i, b)

\* A mutation in flight is not replaced: it stays as it is until it has
\* completed or failed.
C29_Step ==
  \A k \in PageKinds :
    InFlight(k) => mutation'[k] = mutation[k] \/ mutation'[k].status \in {"success", "error"}

\* C29: within one moderation page at most one mutation of each kind is in
\* flight: while one is pending every button of that kind is disabled on every
\* listing, and no second request of the kind is issued before the first has
\* completed or failed.
C29_OneInFlightPerKind == []C29_Disabled /\ [][C29_Step]_vars

\* An advertisement mutation is in flight while the page shows a listing
\* whose buttons would otherwise send another.
C29_Witness ==
  /\ InFlight("advertisement")
  /\ \E id \in DOMAIN view["advertisement"] :
       Buttons(view["advertisement"][id]) \ {mutation["advertisement"].button} # {}

\* What the dashboard renders in each state of the session.
C30_Render ==
  /\ dashboard.isLoading => Screen = "spinner"
  /\ (~dashboard.isLoading /\ ~dashboard.isAuthenticated) => Screen = "accessDenied"
  /\ Screen = "content" <=> (~dashboard.isLoading /\ dashboard.isAuthenticated)
  /\ ShownListings # {} => (~dashboard.isLoading /\ dashboard.isAuthenticated)
  /\ \A q \in UserQueries : ENABLED StartFetch(q) => dashboard.isAuthenticated

\* A query starts a fetch only while the user is authenticated.
C30_Step ==
  \A q \in UserQueries :
    (~dashboard.fetching[q] /\ dashboard'.fetching[q]) => dashboard.isAuthenticated

\* C30: the user dashboard never fetches or shows user listings while the
\* user is not authenticated: its three queries fetch only when isAuthenticated
\* is true, a loading session shows the spinner alone, a settled session
\* without a user shows the Access Denied card alone, and listings are on the
\* screen only when isLoading is false and isAuthenticated is true.
C30_AuthGate == []C30_Render /\ [][C30_Step]_vars

\* The session has ended with the user's listings still held by a query:
\* the dashboard shows the Access Denied card and none of them.
C30_Witness ==
  /\ ~dashboard.isLoading
  /\ ~dashboard.isAuthenticated
  /\ \E q \in UserQueries : dashboard.data[q]
  /\ Screen = "accessDenied"
  /\ ShownListings = {}

====
